---------------------------- MODULE Spec2Model ----------------------------
(***************************************************************************)
(* Model of Cornucopia's primitive fitting stage                           *)
(* (src/Cornucopia/PrimitiveFitter.cpp): the candidate generator           *)
(* DefaultPrimitiveFitter::_run and the constrained refiner                *)
(* DefaultPrimitiveFitter::adjustPrimitive with its reparametrized         *)
(* least-squares problem OneCurveProblem.                                  *)
(*                                                                         *)
(* Real numbers (C++ double) are modelled as exact rationals [n, d].       *)
(***************************************************************************)
EXTENDS Integers, Sequences, FiniteSets

---------------------------------------------------------------------------
(* Exact rational arithmetic standing for the double arithmetic of the   *)
(* code: a number is [n, d] with d > 0; Reduce gives its lowest terms, the *)
(* form in which a curve stores its parameters.                            *)

R(k) == [n |-> k, d |-> 1]

Half == [n |-> 1, d |-> 2]

RECURSIVE GCD(_, _)
GCD(a, b) == IF b = 0 THEN a ELSE GCD(b, a % b)

Reduce(a) ==
    LET g == GCD(IF a.n < 0 THEN -a.n ELSE a.n, a.d)
    IN  [n |-> a.n \div g, d |-> a.d \div g]

RAdd(a, b) == [n |-> a.n * b.d + b.n * a.d, d |-> a.d * b.d]
RSub(a, b) == [n |-> a.n * b.d - b.n * a.d, d |-> a.d * b.d]
RMul(a, b) == [n |-> a.n * b.n, d |-> a.d * b.d]
\* a / b for b # 0 (every divisor of the model is a positive length)
RDiv(a, b) ==
    IF b.n > 0 THEN [n |-> a.n * b.d, d |-> a.d * b.n]
    ELSE [n |-> -(a.n * b.d), d |-> -(a.d * b.n)]
RLe(a, b) == a.n * b.d <= b.n * a.d
RLt(a, b) == a.n * b.d < b.n * a.d
RGe(a, b) == RLe(b, a)
RGt(a, b) == RLt(b, a)

---------------------------------------------------------------------------
(* Curve primitives: type tags and the three parameter slots the fitter    *)
(* knows about.                                                            *)

LINE == 0
ARC == 1
CLOTHOID == 2

\* the slots of a curve's parameter vector that the refiner reads or writes
Slots(type) ==
    CASE type = LINE -> {"LENGTH"}
      [] type = ARC -> {"LENGTH", "CURVATURE"}
      [] type = CLOTHOID -> {"LENGTH", "CURVATURE", "DCURVATURE"}

\* CurvePrimitive::length()
CurveLength(curve) == curve.params["LENGTH"]

\* CurvePrimitive::startCurvature()
StartCurvature(curve) ==
    IF curve.type = LINE THEN R(0) ELSE curve.params["CURVATURE"]

\* CurvePrimitive::endCurvature()
EndCurvature(curve) ==
    CASE curve.type = LINE -> R(0)
      [] curve.type = ARC -> curve.params["CURVATURE"]
      [] curve.type = CLOTHOID ->
            RAdd(curve.params["CURVATURE"],
                 RMul(curve.params["LENGTH"], curve.params["DCURVATURE"]))

---------------------------------------------------------------------------
(* OneCurveProblem: the reparametrization                                  *)

\* CurvePrimitive::setParams(x): the vector as the curve keeps it
Stored(x) ==
    CASE DOMAIN x = Slots(LINE) -> [LENGTH |-> Reduce(x["LENGTH"])]
      [] DOMAIN x = Slots(ARC) ->
            [LENGTH |-> Reduce(x["LENGTH"]), CURVATURE |-> Reduce(x["CURVATURE"])]
      [] DOMAIN x = Slots(CLOTHOID) ->
            [LENGTH |-> Reduce(x["LENGTH"]), CURVATURE |-> Reduce(x["CURVATURE"]),
             DCURVATURE |-> Reduce(x["DCURVATURE"])]

\* a plausible slip in params(): the rate is not scaled by the length
ParamsUnscaled(primitive) ==
    IF primitive.curve.type # CLOTHOID
    THEN primitive.curve.params
    ELSE LET out == primitive.curve.params
         IN  [out EXCEPT !["DCURVATURE"] =
                RAdd(out["CURVATURE"], out["DCURVATURE"])]

\* OneCurveProblem::params()
Params(primitive) ==
    IF primitive.curve.type # CLOTHOID
    THEN primitive.curve.params
    ELSE LET out == primitive.curve.params
         IN  [out EXCEPT !["DCURVATURE"] =
                RAdd(out["CURVATURE"], RMul(out["LENGTH"], out["DCURVATURE"]))]

\* a plausible slip in setParams: the start curvature is not subtracted
SetParamsNoOffset(primitive, x) ==
    IF primitive.curve.type # CLOTHOID
    THEN [primitive EXCEPT !.curve.params = Stored(x)]
    ELSE [primitive EXCEPT !.curve.params =
            Stored([x EXCEPT !["DCURVATURE"] = RDiv(x["DCURVATURE"], x["LENGTH"])])]

\* OneCurveProblem::setParams(x): the curve is shared through its pointer,
\* so the primitive's curve is what changes
SetParams(primitive, x) ==
    IF primitive.curve.type # CLOTHOID
    THEN [primitive EXCEPT !.curve.params = Stored(x)]
    ELSE LET xm == [x EXCEPT !["DCURVATURE"] =
                      RDiv(RSub(x["DCURVATURE"], x["CURVATURE"]), x["LENGTH"])]
         IN  [primitive EXCEPT !.curve.params = Stored(xm)]

---------------------------------------------------------------------------
(* adjustPrimitive: constraints, solve, write back                         *)

LSBoxConstraint(index, value, sign) ==
    [index |-> index, value |-> value, sign |-> sign]

\* a plausible slip: the end-curvature constraint takes the start sign
ConstraintsStartSign(primitive, inflectionAccounting) ==
    <<LSBoxConstraint("LENGTH", RMul(CurveLength(primitive.curve), Half), 1)>>
    \o (IF inflectionAccounting /\ primitive.curve.type >= ARC
        THEN <<LSBoxConstraint("CURVATURE", R(0), primitive.startCurvSign)>>
        ELSE <<>>)
    \o (IF inflectionAccounting /\ primitive.curve.type = CLOTHOID
        THEN <<LSBoxConstraint("DCURVATURE", R(0), primitive.startCurvSign)>>
        ELSE <<>>)

\* the constraint list adjustPrimitive builds
Constraints(primitive, inflectionAccounting) ==
    <<LSBoxConstraint("LENGTH", RMul(CurveLength(primitive.curve), Half), 1)>>
    \o (IF inflectionAccounting /\ primitive.curve.type >= ARC
        THEN <<LSBoxConstraint("CURVATURE", R(0), primitive.startCurvSign)>>
        ELSE <<>>)
    \o (IF inflectionAccounting /\ primitive.curve.type = CLOTHOID
        THEN <<LSBoxConstraint("DCURVATURE", R(0), primitive.endCurvSign)>>
        ELSE <<>>)

\* a box constraint allows the side of its bound that its sign names
Satisfies(v, c) ==
    IF c.sign > 0 THEN RGe(v, c.value) ELSE RLe(v, c.value)

RECURSIVE Clamp(_, _, _, _)
Clamp(v, slot, constraints, k) ==
    IF k > Len(constraints) THEN v
    ELSE LET c == constraints[k]
             w == IF c.index = slot /\ ~Satisfies(v, c) THEN c.value ELSE v
         IN  Clamp(w, slot, constraints, k + 1)

\* LSSolver::solve with one iteration: one step from x0, kept inside the box
LSSolve(x0, constraints, step) ==
    LET v(s) == Clamp(RAdd(x0[s], R(step[s])), s, constraints, 1)
    IN  CASE DOMAIN x0 = Slots(LINE) -> [LENGTH |-> v("LENGTH")]
          [] DOMAIN x0 = Slots(ARC) ->
                [LENGTH |-> v("LENGTH"), CURVATURE |-> v("CURVATURE")]
          [] DOMAIN x0 = Slots(CLOTHOID) ->
                [LENGTH |-> v("LENGTH"), CURVATURE |-> v("CURVATURE"),
                 DCURVATURE |-> v("DCURVATURE")]

\* adjustPrimitive, given the step the solver takes
AdjustPrimitive(primitive, inflectionAccounting, step) ==
    LET constraints == Constraints(primitive, inflectionAccounting)
    IN  SetParams(primitive, LSSolve(Params(primitive), constraints, step))

---------------------------------------------------------------------------
(* Bounds of the model *)

\* largest number of samples of the resampled polyline
MaxPts == 5
\* the scaled ERROR_THRESHOLD parameter of the run
errorThreshold == 2

\* start and end curvature of the stroke as the fitters see it
CurvaturePairs == {<<2, 2>>, <<-2, 2>>}
ErrorLevels == {"zero", "over"}

---------------------------------------------------------------------------
(* State *)

VARIABLES
    npts,                 \* pts.size()
    closed,               \* topology of the sample sequence
    corners,              \* corner flag per sample index
    costs,                \* LINE_COST, ARC_COST, CLOTHOID_COST: "finite" or "infinity"
    inflectionCost,       \* INFLECTION_COST
    adjust,               \* _adjust
    shape,                \* what the fitters, the error computer and the solver answer
    i,                    \* start index of the outer loop
    type,                 \* primitive type of the middle loop
    fitSoFar,             \* points counted so far for (i, type)
    circ,                 \* circ.index() of the sample handled next
    fitters,              \* the points added to fitters[0..2] for start i
    out,                  \* out.primitives
    failed,               \* history: the threshold tests that failed
    pc,                   \* "run" inside the loops, "done" after them
    refine                \* one refinement on its own: stage, primitive, history

vars == <<npts, closed, corners, costs, inflectionCost, adjust, shape,
          i, type, fitSoFar, circ, fitters, out, failed, pc, refine>>

inputs == <<npts, closed, corners, costs, inflectionCost, adjust, shape, refine>>

---------------------------------------------------------------------------
(* The polyline and its circulator *)

\* Polyline::lengthFromTo on a uniformly resampled polyline with unit spacing
lengthFromTo(from, to) ==
    IF to >= from THEN to - from ELSE to - from + npts

\* Circulator::operator++ followed by done(): the next index, or -1 when done
CircNext(start, idx) ==
    IF closed
    THEN (IF (idx + 1) % npts = start THEN -1 ELSE (idx + 1) % npts)
    ELSE (IF idx + 1 = npts THEN -1 ELSE idx + 1)

---------------------------------------------------------------------------
(* The per-type fitters and the error computer *)

FittedLength(points) ==
    IF Len(points) = 0 THEN 0 ELSE lengthFromTo(points[1], points[Len(points)])

\* FitterBase::getPrimitive() of fitters[t]
GetPrimitive(t, points) ==
    LET L == R(FittedLength(points))
    IN  CASE t = LINE -> [type |-> LINE, params |-> [LENGTH |-> L]]
          [] t = ARC ->
                [type |-> ARC,
                 params |-> [LENGTH |-> L, CURVATURE |-> R(shape.startCurv)]]
          [] t = CLOTHOID ->
                [type |-> CLOTHOID,
                 params |-> [LENGTH |-> L, CURVATURE |-> R(shape.startCurv),
                             DCURVATURE |->
                                Reduce(RDiv(R(shape.endCurv - shape.startCurv), L))]]

\* ClothoidFitter::getCurveWithZeroCurvature(param): the fitted curvature rate,
\* with the curvature pinned to zero at arc length param from the start
GetCurveWithZeroCurvature(points, param) ==
    LET L == R(FittedLength(points))
        rate == IF L.n = 0 THEN R(0)
                ELSE Reduce(RDiv(R(shape.endCurv - shape.startCurv), L))
    IN  [type |-> CLOTHOID,
         params |-> [LENGTH |-> L,
                     CURVATURE |-> Reduce(RSub(R(0), RMul(rate, R(param)))),
                     DCURVATURE |-> rate]]

\* the error budget of a span of the given length
Budget(length) == errorThreshold * errorThreshold * length

\* ErrorComputer::computeError(curve, startIdx, endIdx): a pure function of the
\* curve and the span, fixed by shape
ComputeError(curve, startIdx, endIdx) ==
    LET length == lengthFromTo(startIdx, endIdx)
        pinned == /\ curve.type = CLOTHOID
                  /\ \/ StartCurvature(curve).n = 0
                     \/ EndCurvature(curve).n = 0
        level == IF pinned THEN shape.pinnedError
                 ELSE IF length + 1 = shape.badPts THEN "over" ELSE "zero"
    IN  CASE level = "zero" -> 0
          [] level = "at" -> Budget(length)
          [] level = "over" -> Budget(length) + 1

---------------------------------------------------------------------------
(* The candidate generator: DefaultPrimitiveFitter::_run                   *)

inflectionAccounting == inflectionCost > 0

needType(t) == costs[t] # "infinity"

\* a plausible slip: the early exit comes one point late
UnneededLate(t, count) == ~needType(t) /\ (t = 2 \/ count >= 4 + t)

\* the early exit of a type that is not needed
Unneeded(t, count) == ~needType(t) /\ (t = 2 \/ count >= 3 + t)

\* a plausible slip: one point too few
EnoughPointsOffByOne(t, count) == count >= 1 + t

\* at least two points per line, three per arc, four per clothoid
EnoughPoints(t, count) == count >= 2 + t

\* the threshold test of the candidate built from the type's own fitter
ExceedsThreshold(error, length) ==
    RGt(RDiv(R(error), R(length)), R(errorThreshold * errorThreshold))

\* a plausible slip: the comparison of the split test the wrong way round
WithinThresholdInverted(error, length) ==
    RGt(RDiv(R(error), R(length)), R(errorThreshold * errorThreshold))

\* the threshold test of an inflection-split candidate
WithinThreshold(error, length) ==
    RLt(RDiv(R(error), R(length)), R(errorThreshold * errorThreshold))

\* a plausible slip: the corner test skips the second point too
CornerStopLate(count, idx) == count > 2 /\ corners[idx]

\* a plausible slip: the corner test looks at the sample after the current one
CornerStopNext(count, idx) ==
    count > 1 /\ CircNext(i, idx) # -1 /\ corners[CircNext(i, idx)]

\* the corner test that ends a traversal
CornerStop(count, idx) == count > 1 /\ corners[idx]

CurvSign(k) == IF RGe(k, R(0)) THEN 1 ELSE -1

StrictCurvSign(k) == IF RGt(k, R(0)) THEN 1 ELSE -1

\* adjustPrimitive when _adjust is set
Refined(fit) ==
    IF adjust
    THEN AdjustPrimitive(fit, inflectionAccounting,
                         [LENGTH |-> -1, CURVATURE |-> -1, DCURVATURE |-> -1])
    ELSE fit

Measured(fit) ==
    [fit EXCEPT !.error = ComputeError(fit.curve, fit.startIdx, fit.endIdx)]

\* the candidate materialized from fitters[t], refined and measured
Primary(t, start, idx, count, points) ==
    LET curve == GetPrimitive(t, points)
        fit == [curve |-> curve, startIdx |-> start, endIdx |-> idx,
                numPts |-> count,
                startCurvSign |-> CurvSign(StartCurvature(curve)),
                endCurvSign |-> CurvSign(EndCurvature(curve)),
                error |-> 0]
    IN  Measured(Refined(fit))

\* a plausible slip: the line is appended a second time with its signs as
\* they were
MirroredUnflipped(fit) == fit

\* the line with "opposite" curvature
Mirrored(fit) ==
    [fit EXCEPT !.startCurvSign = -fit.startCurvSign,
                !.endCurvSign = -fit.endCurvSign]

\* fit as it stands when the inflection test reads it
AfterMirror(t, fit) ==
    IF t = 0 /\ inflectionAccounting THEN Mirrored(fit) ELSE fit

SplitNeeded(t, fit) ==
    /\ AfterMirror(t, fit).startCurvSign # AfterMirror(t, fit).endCurvSign
    /\ inflectionAccounting

\* the candidate with zero curvature at the start of the span
StartNoCurv(t, fit, clothoidPoints) ==
    LET curve == GetCurveWithZeroCurvature(clothoidPoints, 0)
        sign == StrictCurvSign(EndCurvature(curve))
    IN  Measured(Refined([AfterMirror(t, fit) EXCEPT !.curve = curve,
                            !.startCurvSign = sign, !.endCurvSign = sign]))

\* the candidate with zero curvature at the end of the span
EndNoCurv(t, fit, clothoidPoints) ==
    LET curve == GetCurveWithZeroCurvature(clothoidPoints,
                    lengthFromTo(fit.startIdx, fit.endIdx))
        sign == StrictCurvSign(StartCurvature(curve))
    IN  Measured(Refined([AfterMirror(t, fit) EXCEPT !.curve = curve,
                            !.startCurvSign = sign, !.endCurvSign = sign]))

\* the two inflection-split candidates, built when the signs differ
SplitCandidates(t, fit, clothoidPoints) ==
    IF SplitNeeded(t, fit)
    THEN <<StartNoCurv(t, fit, clothoidPoints), EndNoCurv(t, fit, clothoidPoints)>>
    ELSE <<>>

\* everything one passing candidate appends to out.primitives, in order
Emitted(t, fit, splits) ==
    LET length == lengthFromTo(fit.startIdx, fit.endIdx)
        passes(s) == WithinThreshold(s.error, length)
    IN  <<fit>>
        \o (IF t = 0 /\ inflectionAccounting THEN <<Mirrored(fit)>> ELSE <<>>)
        \o SelectSeq(splits, passes)

Failure(fit, branch) ==
    [startIdx |-> fit.startIdx, type |-> fit.curve.type,
     numPts |-> fit.numPts, branch |-> branch]

\* the inflection-split candidates that were tested and not emitted
SplitFailures(fit, splits) ==
    LET length == lengthFromTo(fit.startIdx, fit.endIdx)
    IN  {Failure(splits[k], "split") :
            k \in {j \in DOMAIN splits : ~WithinThreshold(splits[j].error, length)}}

NoFitters == [t \in 0..2 |-> <<>>]

\* the loop control after one pass through the innermost body: the next
\* sample of the traversal, else the next type, else the next start index
Advance(break, fed) ==
    LET next == IF break THEN -1 ELSE CircNext(i, circ)
    IN  IF next # -1
        THEN /\ circ' = next
             /\ fitSoFar' = fitSoFar + 1
             /\ fitters' = fed
             /\ UNCHANGED <<i, type, pc>>
        ELSE IF type < 2
        THEN /\ type' = type + 1
             /\ fitSoFar' = 0
             /\ circ' = i
             /\ fitters' = fed
             /\ UNCHANGED <<i, pc>>
        ELSE IF i + 1 < npts
        THEN /\ i' = i + 1
             /\ type' = 0
             /\ fitSoFar' = 0
             /\ circ' = i + 1
             /\ fitters' = NoFitters
             /\ UNCHANGED pc
        ELSE /\ pc' = "done"
             /\ fitters' = fed
             /\ UNCHANGED <<i, type, fitSoFar, circ>>

AddPoint == [fitters EXCEPT ![type] = Append(@, circ)]

\* the type is not needed: break before the point is added
SkipUnneeded ==
    /\ pc = "run"
    /\ Unneeded(type, fitSoFar + 1)
    /\ Advance(TRUE, fitters)
    /\ UNCHANGED <<out, failed, inputs>>

\* too few points for a candidate: the point is added and nothing else
FeedPoint ==
    /\ pc = "run"
    /\ ~Unneeded(type, fitSoFar + 1)
    /\ ~EnoughPoints(type, fitSoFar + 1)
    /\ Advance(CornerStop(fitSoFar + 1, circ), AddPoint)
    /\ UNCHANGED <<out, failed, inputs>>

\* a plausible slip: a candidate over the threshold is dropped and the
\* traversal goes on
StopsOnCornerOnly(exceeds, count, idx) == CornerStop(count, idx)

\* a traversal ends on a candidate over the threshold, or on a corner
StopsTraversal(exceeds, count, idx) == exceeds \/ CornerStop(count, idx)

\* enough points: the candidate is materialized, refined, measured and
\* tested; over the threshold it ends the traversal, else it is appended
\* with its mirror and its inflection splits, and the corner test follows
MaterializeCandidate ==
    /\ pc = "run"
    /\ ~Unneeded(type, fitSoFar + 1)
    /\ EnoughPoints(type, fitSoFar + 1)
    /\ LET fit == Primary(type, i, circ, fitSoFar + 1, AddPoint[type])
           exceeds == ExceedsThreshold(fit.error, lengthFromTo(i, circ))
           splits == IF exceeds THEN <<>>
                     ELSE SplitCandidates(type, fit, AddPoint[2])
       IN  /\ out' = IF exceeds THEN out ELSE out \o Emitted(type, fit, splits)
           /\ failed' = IF exceeds THEN failed \cup {Failure(fit, "primary")}
                        ELSE failed \cup SplitFailures(fit, splits)
           /\ Advance(StopsTraversal(exceeds, fitSoFar + 1, circ), AddPoint)
    /\ UNCHANGED inputs

Shapes(n) ==
    {[startCurv |-> k[1], endCurv |-> k[2], badPts |-> b, pinnedError |-> e] :
        k \in CurvaturePairs, b \in 2..(n + 1), e \in ErrorLevels}

Init ==
    /\ npts \in 2..MaxPts
    /\ closed \in BOOLEAN
    /\ corners \in {c \in [0..(npts - 1) -> BOOLEAN] :
                        Cardinality({k \in 0..(npts - 1) : c[k]}) <= 1}
    /\ costs \in {c \in [0..2 -> {"finite", "infinity"}] :
                        Cardinality({t \in 0..2 : c[t] = "infinity"}) <= 1}
    /\ inflectionCost \in {0, 1}
    /\ adjust \in BOOLEAN
    /\ shape \in {s \in Shapes(npts) :
                        inflectionCost = 0 => s.pinnedError = "zero"}
    /\ i = 0
    /\ type = 0
    /\ fitSoFar = 0
    /\ circ = 0
    /\ fitters = NoFitters
    /\ out = <<>>
    /\ failed = {}
    /\ pc = "run"
    /\ refine = [stage |-> "none"]

Next == SkipUnneeded \/ FeedPoint \/ MaterializeCandidate

Spec == Init /\ [][Next]_vars

---------------------------------------------------------------------------
(* Properties of the candidate generator, checked under Spec.  The output  *)
(* only grows, so a property of every candidate is stated of the output    *)
(* the run ends with.                                                      *)

\* the number of samples a traversal from start can visit
Reach(start) == IF closed THEN npts ELSE npts - start

\* the sample k places after start in traversal order
SampleAt(start, k) == IF closed THEN (start + k) % npts ELSE start + k

IsSplit(c) ==
    /\ c.curve.type = CLOTHOID
    /\ \E k \in DOMAIN out :
        /\ out[k].curve.type = CLOTHOID
        /\ out[k].startIdx = c.startIdx
        /\ out[k].endIdx = c.endIdx
        /\ out[k].startCurvSign # out[k].endCurvSign

\* C1 as stated: once any candidate tested in the traversal for (i, t)
\* fails the threshold test, inflection-split candidates included, no
\* candidate of (i, t) with a longer span is in the output.
C1_AnyFailurePrunes ==
    pc = "done" =>
        \A f \in failed : \A k \in DOMAIN out :
            (out[k].startIdx = f.startIdx /\ out[k].curve.type = f.type)
                => out[k].numPts <= f.numPts

\* C1 amended: once the candidate built from type t's own fitter fails the
\* threshold test at some span end, no candidate of (i, t) with a longer
\* span is in the output.
C1_PrimaryFailurePrunes ==
    pc = "done" =>
        \A f \in failed : f.branch = "primary" =>
            \A k \in DOMAIN out :
                (out[k].startIdx = f.startIdx /\ out[k].curve.type = f.type)
                    => out[k].numPts <= f.numPts

\* a candidate was emitted, the next longer one for the same pair failed at
\* a sample that is no corner, and samples remained beyond it
C1_Witness ==
    /\ pc = "done"
    /\ \E f \in failed :
        /\ f.branch = "primary"
        /\ f.numPts < Reach(f.startIdx)
        /\ ~corners[SampleAt(f.startIdx, f.numPts - 1)]
        /\ \E k \in DOMAIN out :
            /\ out[k].startIdx = f.startIdx
            /\ out[k].curve.type = f.type
            /\ out[k].numPts = f.numPts - 1

\* C2: every candidate of the output, ordinary, mirrored or
\* inflection-split, has error <= errorThreshold^2 * lengthFromTo(startIdx,
\* endIdx).
C2_ErrorBudget ==
    pc = "done" =>
        \A k \in DOMAIN out :
            out[k].error <= errorThreshold * errorThreshold
                                * lengthFromTo(out[k].startIdx, out[k].endIdx)

\* the output holds a mirrored Line and an inflection-split candidate, and
\* both a primary and an inflection-split candidate were discarded
C2_Witness ==
    /\ pc = "done"
    /\ \E k \in DOMAIN out : out[k].curve.type = LINE /\ out[k].startCurvSign = -1
    /\ \E k \in DOMAIN out : IsSplit(out[k]) /\ out[k].startCurvSign = out[k].endCurvSign
    /\ \E f \in failed : f.branch = "primary"
    /\ \E f \in failed : f.branch = "split"

\* C3: no candidate of the output covers a span with a corner-flagged
\* sample strictly between its first and its last sample.
C3_CornersBoundSpans ==
    pc = "done" =>
        \A k \in DOMAIN out :
            \A m \in 1..(lengthFromTo(out[k].startIdx, out[k].endIdx) - 1) :
                ~corners[SampleAt(out[k].startIdx, m)]

\* a span of three samples or more ends at a corner that is not the last
\* sample of its traversal, and another starts at that corner
C3_Witness ==
    /\ pc = "done"
    /\ \E k \in DOMAIN out :
        /\ corners[out[k].endIdx]
        /\ out[k].numPts >= 3
        /\ out[k].numPts < Reach(out[k].startIdx)
    /\ \E k \in DOMAIN out : corners[out[k].startIdx] /\ out[k].numPts >= 3

LineIndices == {k \in DOMAIN out : out[k].curve.type = LINE}

\* C4: with inflection accounting, the Line candidates of the output come
\* in pairs: for every span either none or exactly two, one right after
\* the other, equal in curve, span, point count and error, one with both
\* signs +1 and the other with both signs -1.
C4_LinesMirrored ==
    (pc = "done" /\ inflectionAccounting) =>
        \A k \in LineIndices :
            LET same == {j \in LineIndices :
                            /\ out[j].startIdx = out[k].startIdx
                            /\ out[j].endIdx = out[k].endIdx}
            IN  \E a \in same :
                    /\ same = {a, a + 1}
                    /\ out[a].curve = out[a + 1].curve
                    /\ out[a].numPts = out[a + 1].numPts
                    /\ out[a].error = out[a + 1].error
                    /\ {<<out[a].startCurvSign, out[a].endCurvSign>>,
                        <<out[a + 1].startCurvSign, out[a + 1].endCurvSign>>}
                            = {<<1, 1>>, <<-1, -1>>}

\* Lines over two different spans from one start were emitted and mirrored
C4_Witness ==
    /\ pc = "done"
    /\ inflectionAccounting
    /\ \E j, k \in LineIndices :
        /\ out[j].startIdx = out[k].startIdx
        /\ out[j].numPts = 2
        /\ out[k].numPts = 3

\* C5 as stated: no candidate of a type whose cost is infinite is in the
\* output.
C5_InfiniteCostNeverEmitted ==
    pc = "done" =>
        \A k \in DOMAIN out : costs[out[k].curve.type] # "infinity"

\* C5 amended: of a type whose cost is infinite the output holds no
\* Clothoid, and of Line and Arc only candidates of the minimum point count
\* (two points for a Line, three for an Arc).
C5_InfiniteCostOnlyMinimal ==
    pc = "done" =>
        \A k \in DOMAIN out :
            costs[out[k].curve.type] = "infinity" =>
                /\ out[k].curve.type # CLOTHOID
                /\ out[k].numPts = out[k].curve.type + 2

\* a type of infinite cost left a minimal candidate where a longer span
\* was in reach, and the Clothoid type of infinite cost left none
C5_Witness ==
    /\ pc = "done"
    /\ \E k \in DOMAIN out :
        /\ costs[out[k].curve.type] = "infinity"
        /\ out[k].numPts < Reach(out[k].startIdx)
        /\ ~corners[out[k].endIdx]
    /\ shape.badPts > npts

\* C8: every candidate of the output has numPts >= T + 2, T the type tag
\* of its curve.
C8_MinimumPoints ==
    pc = "done" =>
        \A k \in DOMAIN out : out[k].numPts >= out[k].curve.type + 2

\* the output holds a two-point Line, a three-point Arc, a four-point
\* Clothoid and a four-point inflection-split candidate
C8_Witness ==
    /\ pc = "done"
    /\ \E k \in DOMAIN out : out[k].curve.type = LINE /\ out[k].numPts = 2
    /\ \E k \in DOMAIN out : out[k].curve.type = ARC /\ out[k].numPts = 3
    /\ \E k \in DOMAIN out :
        /\ out[k].numPts = 4
        /\ IsSplit(out[k])
        /\ out[k].startCurvSign = out[k].endCurvSign

TraversalEnds == pc' = "done" \/ i' # i \/ type' # type

\* C9 as stated: after a sample is handled with more than one point fed,
\* the traversal ends if the next sample in traversal order is a corner.
C9_StopsBeforeCorner ==
    [][(/\ pc = "run"
        /\ fitSoFar + 1 > 1
        /\ CircNext(i, circ) # -1
        /\ corners[CircNext(i, circ)]) => TraversalEnds]_vars

\* C9 amended: after a sample is handled with more than one point fed, the
\* traversal ends if that sample, the one just handled, is a corner.
C9_StopsAtCorner ==
    [][(/\ pc = "run"
        /\ fitSoFar + 1 > 1
        /\ corners[circ]) => TraversalEnds]_vars

\* a traversal has just ended on a corner: its last candidate ends at a
\* corner, samples remained beyond it, and the next type has begun
C9_Witness ==
    /\ pc = "run"
    /\ type >= 1
    /\ fitSoFar = 0
    /\ Len(out) > 0
    /\ out[Len(out)].curve.type = type - 1
    /\ out[Len(out)].startIdx = i
    /\ corners[out[Len(out)].endIdx]
    /\ out[Len(out)].numPts < Reach(i)
    /\ shape.badPts > npts

---------------------------------------------------------------------------
(* One refinement on its own: adjustPrimitive and the reparametrization    *)
(* applied to every primitive the generator can hand them, with every step *)
(* of the solver.                                                          *)

\* largest fitted length, curvature and curvature-rate numerator
MaxLen == 3
MaxCurv == 1
MaxRate == 1

RefineCurvatures == {R(k) : k \in (-MaxCurv)..MaxCurv}

RefineRates == {Reduce([n |-> a, d |-> b]) : a \in (-MaxRate)..MaxRate, b \in 1..2}

RefineCurves ==
    {[type |-> LINE, params |-> [LENGTH |-> R(L)]] : L \in 1..MaxLen}
    \cup {[type |-> ARC, params |-> [LENGTH |-> R(L), CURVATURE |-> k]] :
            L \in 1..MaxLen, k \in RefineCurvatures}
    \cup {[type |-> CLOTHOID,
           params |-> [LENGTH |-> R(L), CURVATURE |-> k, DCURVATURE |-> r]] :
            L \in 1..MaxLen, k \in RefineCurvatures, r \in RefineRates}

\* the signs _run gives a candidate before it refines it: those of the
\* curve's two ends, or for an inflection-split candidate the strict sign of
\* the end that is not pinned to zero
RefineSigns(curve) ==
    {<<CurvSign(StartCurvature(curve)), CurvSign(EndCurvature(curve))>>}
    \cup (IF curve.type = CLOTHOID /\ StartCurvature(curve).n = 0
          THEN {<<StrictCurvSign(EndCurvature(curve)),
                  StrictCurvSign(EndCurvature(curve))>>}
          ELSE {})
    \cup (IF curve.type = CLOTHOID /\ EndCurvature(curve).n = 0
          THEN {<<StrictCurvSign(StartCurvature(curve)),
                  StrictCurvSign(StartCurvature(curve))>>}
          ELSE {})

RefinePrimitives ==
    {[curve |-> c, startIdx |-> 0, endIdx |-> c.type + 1, numPts |-> c.type + 2,
      startCurvSign |-> sg[1], endCurvSign |-> sg[2], error |-> 0] :
        c \in RefineCurves, sg \in {-1, 1} \X {-1, 1}}

SolverSteps ==
    [LENGTH : {-2, 0, 1}, CURVATURE : {-2, 0, 2}, DCURVATURE : {-2, 0, 2}]

InitRefine ==
    /\ npts = 2
    /\ closed = FALSE
    /\ corners = [k \in 0..1 |-> FALSE]
    /\ costs = [t \in 0..2 |-> "finite"]
    /\ inflectionCost \in {0, 1}
    /\ adjust = TRUE
    /\ shape = [startCurv |-> 2, endCurv |-> 2, badPts |-> 3, pinnedError |-> "zero"]
    /\ i = 0
    /\ type = 0
    /\ fitSoFar = 0
    /\ circ = 0
    /\ fitters = NoFitters
    /\ out = <<>>
    /\ failed = {}
    /\ pc = "done"
    /\ \E p \in RefinePrimitives :
        /\ <<p.startCurvSign, p.endCurvSign>> \in RefineSigns(p.curve)
        /\ refine = [stage |-> "fitted", primitive |-> p, before |-> p,
                     constraints |-> <<>>]

main == <<npts, closed, corners, costs, inflectionCost, adjust, shape,
          i, type, fitSoFar, circ, fitters, out, failed, pc>>

\* adjustPrimitive(primitive, fitter)
RefineAdjust ==
    /\ refine.stage = "fitted"
    /\ \E step \in SolverSteps :
        refine' = [stage |-> "adjusted",
                   primitive |-> AdjustPrimitive(refine.primitive,
                                                 inflectionAccounting, step),
                   before |-> refine.primitive,
                   constraints |-> Constraints(refine.primitive,
                                               inflectionAccounting)]
    /\ UNCHANGED main

\* problem.setParams(problem.params())
RefineRoundTrip ==
    /\ refine.stage = "fitted"
    /\ refine' = [stage |-> "roundtrip",
                  primitive |-> SetParams(refine.primitive, Params(refine.primitive)),
                  before |-> refine.primitive,
                  constraints |-> <<>>]
    /\ UNCHANGED main

NextRefine == RefineAdjust \/ RefineRoundTrip

SpecRefine == InitRefine /\ [][NextRefine]_vars

---------------------------------------------------------------------------
(* Properties of the refiner, checked under SpecRefine                     *)

ConstraintsOn(slot) ==
    {refine.constraints[k] :
        k \in {j \in DOMAIN refine.constraints : refine.constraints[j].index = slot}}

\* C6: after adjustPrimitive, with a solver that honours the box it was
\* given, the refined curve is at least half as long as before, and every
\* curvature the refinement constrained (the start curvature of an Arc or
\* Clothoid, the end curvature of a Clothoid) lies, in the curve as written
\* back through setParams, on the allowed side of zero.
C6_BoxConstraintsHold ==
    refine.stage = "adjusted" =>
        /\ RGe(CurveLength(refine.primitive.curve),
               RMul(CurveLength(refine.before.curve), Half))
        /\ \A c \in ConstraintsOn("CURVATURE") :
                Satisfies(StartCurvature(refine.primitive.curve), c)
        /\ \A c \in ConstraintsOn("DCURVATURE") :
                Satisfies(EndCurvature(refine.primitive.curve), c)

\* a Clothoid whose two ends carry opposite signs was refined under both
\* curvature constraints, and the solver's step had to be cut back at zero
C6_Witness ==
    /\ refine.stage = "adjusted"
    /\ refine.before.curve.type = CLOTHOID
    /\ refine.before.startCurvSign # refine.before.endCurvSign
    /\ ConstraintsOn("CURVATURE") # {}
    /\ ConstraintsOn("DCURVATURE") # {}
    /\ EndCurvature(refine.primitive.curve).n = 0
    /\ EndCurvature(refine.before.curve).n # 0
    /\ RLt(CurveLength(refine.primitive.curve), CurveLength(refine.before.curve))

\* C7: setParams(params()) leaves the raw parameter vector of a primitive
\* unchanged: for a Clothoid the rate slot goes to the end curvature and
\* comes back, for a Line or an Arc the vector passes through.
C7_RoundTrip ==
    refine.stage = "roundtrip" =>
        refine.primitive.curve.params = refine.before.curve.params

\* the round trip of a Clothoid whose end curvature differs from its rate
C7_Witness ==
    /\ refine.stage = "roundtrip"
    /\ refine.before.curve.type = CLOTHOID
    /\ refine.before.curve.params["CURVATURE"].n # 0
    /\ refine.before.curve.params["DCURVATURE"].d = 2
    /\ refine.before.curve.params["LENGTH"].n = MaxLen
    /\ Params(refine.before)["DCURVATURE"] # refine.before.curve.params["DCURVATURE"]

\* C10 as stated: every refinement of a Clothoid hands the solver the
\* constraint (DCURVATURE, 0, endCurvSign), whether or not inflection
\* accounting is enabled.
C10_EndConstraintAlways ==
    (refine.stage = "adjusted" /\ refine.before.curve.type = CLOTHOID) =>
        LSBoxConstraint("DCURVATURE", R(0), refine.before.endCurvSign)
            \in ConstraintsOn("DCURVATURE")

\* C10 amended: with inflection accounting enabled, every refinement of a
\* Clothoid hands the solver exactly one constraint on the DCURVATURE slot,
\* with bound 0 and allowed sign endCurvSign; with it disabled, none.
C10_EndConstraintUnderInflection ==
    (refine.stage = "adjusted" /\ refine.before.curve.type = CLOTHOID) =>
        ConstraintsOn("DCURVATURE") =
            IF inflectionAccounting
            THEN {LSBoxConstraint("DCURVATURE", R(0), refine.before.endCurvSign)}
            ELSE {}

\* a Clothoid with opposite end signs refined under inflection accounting
C10_Witness ==
    /\ refine.stage = "adjusted"
    /\ refine.before.curve.type = CLOTHOID
    /\ inflectionAccounting
    /\ refine.before.startCurvSign = 1
    /\ refine.before.endCurvSign = -1

=============================================================================
